---- MODULE Spec2Model ----
(***************************************************************************)
(* The binding registry of kbehdz (src/kbehdz.rs): a HashMap from owned    *)
(* events to non-owning action handles, with lookup (get_action),          *)
(* execution (run_action), rebinding (bind_action) and the bulk            *)
(* constructor (with_init).                                                *)
(*                                                                         *)
(* Events are strings in two representations, as in src/examples/          *)
(* agitate.rs: the owned String the map stores and the borrowed str the    *)
(* callers pass.  Actions are handles to zero-argument callables; calling  *)
(* one either returns a value or panics.                                   *)
(***************************************************************************)
EXTENDS Naturals, Sequences, FiniteSets

\* Longest list of (event, action) pairs handed to with_init.
MaxInit == 2

\* ------------------------------------------------------------------------
\* Events: owned and borrowed representations
\* ------------------------------------------------------------------------

\* The characters of the events used ("X" and "Y" are the demo's keycodes).
Contents == {"X", "Y"}

\* "String" is the owned event type E, "str" a borrowed form T with E: Borrow<T>.
Forms == {"String", "str"}

Keys == [form : Forms, s : Contents]

NoKey == [form |-> "", s |-> ""]

\* T::to_owned: a fresh owned String holding the same characters.
ToOwned(event) == [form |-> "String", s |-> event.s]

\* <E as Borrow<T>>::borrow: the stored String viewed as a T.
Borrow(e, form) == [form |-> form, s |-> e.s]

\* ------------------------------------------------------------------------
\* Actions and their invocation
\* ------------------------------------------------------------------------

\* Handles (references to callables).  &yell and &scream are the demo's
\* actions; &boom is a caller-supplied closure that panics.
Actions == {"&yell", "&scream", "&boom"}

\* action(): what invoking the callable behind a handle produces.
Call(action) ==
    CASE action = "&yell"   -> [tag |-> "Return", val |-> "yell"]
      [] action = "&scream" -> [tag |-> "Return", val |-> "scream"]
      [] action = "&boom"   -> [tag |-> "Panic",  val |-> "boom!"]

\* Option<_>
None == [tag |-> "None", val |-> ""]

Some(v) == [tag |-> "Some", val |-> v]

\* ------------------------------------------------------------------------
\* std::collections::HashMap<E, Action>, as a set of <<key, value>> entries
\* ------------------------------------------------------------------------

HashMapNew == {}

\* HashMap::insert: the entry for k is replaced or created.
HashMapInsert(map, k, v) == {p \in map : p[1] # k} \cup {<<k, v>>}

\* HashMap::get(&Q) where K: Borrow<Q>: the entry whose key, borrowed as the
\* query's type, equals the query.
HashMapGet(map, q) ==
    LET hits == {p \in map : Borrow(p[1], q.form) = q}
    IN  IF hits = {} THEN None ELSE Some((CHOOSE p \in hits : TRUE)[2])

\* ------------------------------------------------------------------------
\* Bindings
\* ------------------------------------------------------------------------

\* Bindings::new
new == HashMapNew

RECURSIVE with_init_loop(_, _)
\* The for loop of with_init: kbs.0.insert(key.to_owned(), action) per pair.
with_init_loop(self, bindings) ==
    IF bindings = <<>> THEN self
    ELSE LET key    == Head(bindings)[1]
             action == Head(bindings)[2]
             e      == ToOwned(key)
         IN  with_init_loop(HashMapInsert(self, e, action), Tail(bindings))

\* Mutant: the list is walked back to front, so the first pair of an event wins.
with_init_first_wins(bindings) ==
    LET rev == [i \in 1..Len(bindings) |-> bindings[Len(bindings) + 1 - i]]
    IN  with_init_loop(new, rev)

\* Mutant: the first pair of the list is skipped.
with_init_skip_first(bindings) ==
    IF bindings = <<>> THEN new ELSE with_init_loop(new, Tail(bindings))

\* Bindings::with_init
with_init(bindings) == with_init_loop(new, bindings)

\* Mutant: a miss falls back to some other binding.
get_action_fallback(self, event) ==
    LET r == HashMapGet(self, event)
    IN  IF r.tag = "None" /\ self # {}
        THEN Some((CHOOSE p \in self : TRUE)[2])
        ELSE r

\* Mutant: the query is compared with the stored key as it is, without
\* borrowing the key as the query's type.
get_action_owned_only(self, event) ==
    LET hits == {p \in self : p[1] = event}
    IN  IF hits = {} THEN None ELSE Some((CHOOSE p \in hits : TRUE)[2])

\* Bindings::get_action: self.0.get(event).and_then(|&action| Some(action))
get_action(self, event) ==
    LET r == HashMapGet(self, event)
    IN  IF r.tag = "None" THEN None ELSE Some(r.val)

\* Mutant: the result of the action is dropped and None returned.
run_action_discard(self, event) ==
    LET g == get_action(self, event)
    IN  IF g.tag = "None" THEN [ret |-> None, ran |-> <<>>]
        ELSE [ret |-> None, ran |-> <<g.val>>]

\* Mutant: a panic of the action is caught and turned into None.
run_action_catch(self, event) ==
    LET g == get_action(self, event)
    IN  IF g.tag = "None" THEN [ret |-> None, ran |-> <<>>]
        ELSE LET r == Call(g.val)
             IN  [ret |-> IF r.tag = "Panic" THEN None ELSE Some(r.val),
                  ran |-> <<g.val>>]

\* Bindings::run_action: self.get_action(event).and_then(|action| Some(action())).
\* ret is what the caller gets (a panic of the action unwinds through
\* run_action), ran the actions invoked, in order.
run_action(self, event) ==
    LET g == get_action(self, event)
    IN  IF g.tag = "None" THEN [ret |-> None, ran |-> <<>>]
        ELSE LET r == Call(g.val)
             IN  [ret |-> IF r.tag = "Panic" THEN r ELSE Some(r.val),
                  ran |-> <<g.val>>]

\* Mutant: an existing binding is kept (entry().or_insert()).
bind_action_keep(self, event, action) ==
    [self |-> IF HashMapGet(self, ToOwned(event)).tag = "Some" THEN self
              ELSE HashMapInsert(self, ToOwned(event), action),
     ran  |-> <<>>]

\* Mutant: the map is rebuilt with the new binding alone.
bind_action_clobber(self, event, action) ==
    [self |-> HashMapInsert(HashMapNew, ToOwned(event), action),
     ran  |-> <<>>]

\* Mutant: a replaced action is invoked as a notification.
bind_action_notify(self, event, action) ==
    LET old == HashMapGet(self, ToOwned(event))
    IN  [self |-> HashMapInsert(self, ToOwned(event), action),
         ran  |-> IF old.tag = "Some" THEN <<old.val>> ELSE <<>>]

\* Mutant: binding an event to the action it already has removes the binding.
bind_action_toggle(self, event, action) ==
    [self |-> IF HashMapGet(self, ToOwned(event)) = Some(action)
              THEN {p \in self : p[1] # ToOwned(event)}
              ELSE HashMapInsert(self, ToOwned(event), action),
     ran  |-> <<>>]

\* Bindings::bind_action: self.0.insert(event.to_owned(), action).
\* self is the map afterwards, ran the actions invoked (none).
bind_action(self, event, action) ==
    [self |-> HashMapInsert(self, ToOwned(event), action),
     ran  |-> <<>>]

\* ------------------------------------------------------------------------
\* State
\* ------------------------------------------------------------------------

VARIABLES
    kbs,    \* the registry's HashMap (Bindings.0)
    alive,  \* FALSE once the registry has been dropped
    held,   \* the handle the caller got from its latest successful get_action
    last,   \* the latest operation: its arguments, result and invoked actions
    hist,   \* per event, the (up to two) latest actions bound by bind_action
    ever    \* the events bound so far, by the initial pairs or by bind_action

vars == <<kbs, alive, held, last, hist, ever>>

NoHandle == [src |-> NoKey, h |-> "", fresh |-> FALSE]

Op(op, key, act, via, ret, ran, pre, bindings) ==
    [op |-> op, key |-> key, act |-> act, via |-> via, ret |-> ret,
     ran |-> ran, pre |-> pre, bindings |-> bindings]

\* Lists of (event, action) pairs of length at most n.
PairSeqs(n) == UNION {[1..l -> Keys \X Actions] : l \in 0..n}

\* let kc = Bindings::new();
InitNew ==
    /\ kbs = new
    /\ last = Op("new", NoKey, "", "", None, <<>>, {}, <<>>)
    /\ ever = {}

\* let kc = Bindings::with_init(bindings);
InitWithInit ==
    \E bindings \in PairSeqs(MaxInit) :
        /\ kbs = with_init(bindings)
        /\ last = Op("with_init", NoKey, "", "", None, <<>>, {}, bindings)
        /\ ever = {bindings[i][1].s : i \in 1..Len(bindings)}

Init ==
    /\ InitNew \/ InitWithInit
    /\ alive = TRUE
    /\ held = NoHandle
    /\ hist = [c \in Contents |-> <<>>]

\* kc.get_action(event), the caller keeping the handle when there is one.
GetAction ==
    \E event \in Keys :
        LET r == get_action(kbs, event)
        IN  /\ alive
            /\ last' = Op("get_action", event, "", "", r, <<>>, kbs, <<>>)
            /\ held' = IF r.tag = "Some"
                       THEN [src |-> event, h |-> r.val, fresh |-> TRUE]
                       ELSE held
            /\ UNCHANGED <<kbs, alive, hist, ever>>

\* kc.run_action(event)
RunAction ==
    \E event \in Keys :
        LET r == run_action(kbs, event)
        IN  /\ alive
            /\ last' = Op("run_action", event, "", "", r.ret, r.ran, kbs, <<>>)
            /\ UNCHANGED <<kbs, alive, held, hist, ever>>

Push(h, action) == IF Len(h) < 2 THEN Append(h, action) ELSE <<h[2], action>>

Bind(event, action, via) ==
    LET r == bind_action(kbs, event, action)
    IN  /\ alive
        /\ kbs' = r.self
        /\ last' = Op("bind_action", event, action, via, None, r.ran, kbs, <<>>)
        /\ hist' = [hist EXCEPT ![event.s] = Push(@, action)]
        /\ ever' = ever \cup {event.s}
        /\ UNCHANGED alive

\* kc.bind_action(event, &f) with an action of the caller's
BindAction ==
    \E event \in Keys, action \in Actions :
        /\ Bind(event, action, "direct")
        /\ held' = [held EXCEPT !.fresh = FALSE]

\* let h = kc.get_action(a).unwrap(); kc.bind_action(event, h);
BindHandle ==
    \E event \in Keys :
        /\ held.fresh
        /\ Bind(event, held.h, "handle")
        /\ held' = held

\* The registry goes out of scope: the HashMap frees its keys; the handles
\* are plain references and nothing runs for them.
Drop ==
    /\ alive
    /\ alive' = FALSE
    /\ kbs' = {}
    /\ last' = Op("drop", NoKey, "", "", None, <<>>, kbs, <<>>)
    /\ UNCHANGED <<held, hist, ever>>

Next ==
    \/ GetAction
    \/ RunAction
    \/ BindAction
    \/ BindHandle
    \/ Drop

Spec == Init /\ [][Next]_vars

\* ------------------------------------------------------------------------
\* Properties
\* ------------------------------------------------------------------------

\* What the caller of run_action gets when the handle is invoked.
Outcome(action) ==
    IF Call(action).tag = "Panic" THEN Call(action) ELSE Some(Call(action).val)

\* The events (by their characters) that have an entry in a map.
BoundIn(map) == {p[1].s : p \in map}

\* The binding stored for the characters c.
Binding(map, c) == HashMapGet(map, [form |-> "String", s |-> c])

RECURSIVE BindAll(_, _)
\* bind_action applied to each pair of a list, in order.
BindAll(self, bindings) ==
    IF bindings = <<>> THEN self
    ELSE BindAll(bind_action(self, Head(bindings)[1], Head(bindings)[2]).self,
                 Tail(bindings))

\* The action of the last pair of the list whose event has the characters c.
LastOccurrence(bindings, c) ==
    LET idx == {i \in 1..Len(bindings) : bindings[i][1].s = c}
    IN  IF idx = {} THEN None
        ELSE Some(bindings[CHOOSE i \in idx : \A j \in idx : j <= i][2])

\* C1: when an event has been bound by bind_action to a1 and then to a2 (no
\* later bind of it), run_action of the event invokes a2, once, returns a2's
\* result, and does not invoke a1.
C1_RebindOverwrites ==
    (last.op = "run_action" /\ Len(hist[last.key.s]) = 2) =>
        LET a1 == hist[last.key.s][1]
            a2 == hist[last.key.s][2]
        IN  /\ last.ran = <<a2>>
            /\ last.ret = Outcome(a2)
            /\ a1 # a2 => \A i \in 1..Len(last.ran) : last.ran[i] # a1

C1_Witness ==
    /\ last.op = "run_action"
    /\ hist[last.key.s] = <<"&yell", "&scream">>
    /\ last.ret = Some("scream")

\* C2: for an event never bound (not by the initial pairs, not by
\* bind_action), get_action and run_action return None, invoke nothing and do
\* not fail, in every state of the registry and through either key form.
C2_UnboundIsNone ==
    /\ alive =>
         \A event \in Keys :
            event.s \notin ever =>
                /\ get_action(kbs, event) = None
                /\ run_action(kbs, event) = [ret |-> None, ran |-> <<>>]
    /\ (last.op \in {"get_action", "run_action"} /\ last.key.s \notin ever) =>
            /\ last.ret = None
            /\ last.ran = <<>>

C2_Witness ==
    /\ last.op = "run_action"
    /\ last.key.s \notin ever
    /\ kbs # {}
    /\ last.ret = None

\* C3: with_init of a list of pairs yields the registry that new() followed
\* by bind_action of each pair in order yields: every event of the list is
\* bound to the action of its last occurrence and no other event is bound.
C3_WithInitIsBindAll ==
    last.op = "with_init" =>
        /\ kbs = BindAll(new, last.bindings)
        /\ \A c \in Contents : Binding(kbs, c) = LastOccurrence(last.bindings, c)
        /\ \A p \in kbs : p[1].form = "String"

C3_Witness ==
    /\ last.op = "with_init"
    /\ Len(last.bindings) = 2
    /\ last.bindings[1][1].s = last.bindings[2][1].s
    /\ last.bindings[1][2] # last.bindings[2][2]
    /\ Binding(kbs, last.bindings[2][1].s) = Some(last.bindings[2][2])

\* C4: run_action returns what get_action followed by one invocation of the
\* returned handle gives (None when get_action gives None), and neither
\* run_action nor get_action changes the bindings.
C4_RunIsGetThenInvoke ==
    /\ last.op = "run_action" =>
         LET g == get_action(last.pre, last.key)
         IN  /\ last.ret = (IF g.tag = "None" THEN None ELSE Outcome(g.val))
             /\ last.ran = (IF g.tag = "None" THEN <<>> ELSE <<g.val>>)
             /\ kbs = last.pre
    /\ last.op = "get_action" => kbs = last.pre

C4_Witness ==
    /\ last.op = "run_action"
    /\ last.ret = Some("yell")
    /\ last.ran = <<"&yell">>
    /\ kbs = last.pre

\* C5: an action is invoked only by run_action of an event it is bound to at
\* that moment, and exactly once by such a call; construction, get_action,
\* bind_action (replacing a binding or not) and the drop invoke nothing.
C5_InvokedOnlyByRun ==
    /\ last.op # "run_action" => last.ran = <<>>
    /\ last.op = "run_action" =>
         LET b == Binding(last.pre, last.key.s)
         IN  last.ran = (IF b.tag = "Some" THEN <<b.val>> ELSE <<>>)

C5_Witness ==
    /\ last.op = "bind_action"
    /\ Binding(last.pre, last.key.s).tag = "Some"
    /\ Binding(last.pre, last.key.s) # Some(last.act)
    /\ last.ran = <<>>

\* C6: bind_action of an event leaves the binding of every other event as it
\* was: get_action of the other event returns the same handle, or None, before
\* and after.
C6_BindLeavesOthers ==
    last.op = "bind_action" =>
        \A e1 \in Keys :
            e1.s # last.key.s => get_action(kbs, e1) = get_action(last.pre, e1)

C6_Witness ==
    /\ last.op = "bind_action"
    /\ \E e1 \in Keys :
          /\ e1.s # last.key.s
          /\ get_action(last.pre, e1).tag = "Some"
          /\ get_action(kbs, e1) = get_action(last.pre, e1)
          /\ get_action(kbs, e1) # Some(last.act)

\* C7: after h = get_action(a) and bind_action(b, h), for b bound or not and
\* possibly a itself, b is bound to a's handle, run_action(b) gives what
\* run_action(a) gives, a's binding is as before, and nothing was invoked.
C7_HandleTransfer ==
    (last.op = "bind_action" /\ last.via = "handle") =>
        /\ Binding(kbs, last.key.s) = Binding(last.pre, held.src.s)
        /\ run_action(kbs, last.key).ret = run_action(kbs, held.src).ret
        /\ Binding(kbs, held.src.s) = Binding(last.pre, held.src.s)
        /\ last.ran = <<>>

C7_Witness ==
    /\ last.op = "bind_action"
    /\ last.via = "handle"
    /\ last.key.s # held.src.s
    /\ Binding(last.pre, last.key.s).tag = "Some"
    /\ Binding(last.pre, last.key.s) # Binding(last.pre, held.src.s)
    /\ run_action(kbs, last.key).ret = Some("scream")

\* C8: the owned String and the borrowed str of the same characters address
\* the same binding: get_action and run_action give the same through both,
\* and bind_action through either form leaves one entry, under the owned key.
C8_BorrowTransparent ==
    /\ \A c \in Contents :
          /\ get_action(kbs, [form |-> "String", s |-> c])
                = get_action(kbs, [form |-> "str", s |-> c])
          /\ run_action(kbs, [form |-> "String", s |-> c])
                = run_action(kbs, [form |-> "str", s |-> c])
    /\ (last.op \in {"get_action", "run_action"}) =>
          (last.ret.tag = "None") = (Binding(last.pre, last.key.s).tag = "None")
    /\ last.op = "bind_action" =>
          /\ \A form \in Forms :
                get_action(kbs, [form |-> form, s |-> last.key.s]) = Some(last.act)
          /\ {p \in kbs : p[1].s = last.key.s}
                = {<<[form |-> "String", s |-> last.key.s], last.act>>}

C8_Witness ==
    /\ last.op = "get_action"
    /\ last.key.form = "str"
    /\ last.ret.tag = "Some"
    /\ \E p \in last.pre : p[1].form = "String" /\ p[1].s = last.key.s

\* C9: when the action bound to the event panics, run_action ends in that
\* same panic (not None, not another value), the action was invoked once, and
\* the bindings are as before the call.
C9_PanicPropagates ==
    (/\ last.op = "run_action"
     /\ Binding(last.pre, last.key.s).tag = "Some"
     /\ Call(Binding(last.pre, last.key.s).val).tag = "Panic") =>
        /\ last.ret = Call(Binding(last.pre, last.key.s).val)
        /\ last.ran = <<Binding(last.pre, last.key.s).val>>
        /\ kbs = last.pre

C9_Witness ==
    /\ last.op = "run_action"
    /\ Binding(last.pre, last.key.s) = Some("&boom")
    /\ last.ret = [tag |-> "Panic", val |-> "boom!"]

\* C10: while the registry lives, the bound events are exactly the events of
\* the initial pairs and of the bind_action calls so far, get_action of each
\* of them returns a handle, and no operation removes a binding.
C10_BoundOnlyGrows ==
    alive =>
        /\ BoundIn(kbs) = ever
        /\ \A event \in Keys :
              event.s \in ever => get_action(kbs, event).tag = "Some"
        /\ last.op \in {"get_action", "run_action", "bind_action"} =>
              BoundIn(last.pre) \subseteq BoundIn(kbs)

C10_Witness ==
    /\ alive
    /\ last.op = "bind_action"
    /\ BoundIn(last.pre) = {"X"}
    /\ BoundIn(kbs) = {"X", "Y"}
    /\ ever = {"X", "Y"}

====
